---- MODULE Spec2Model ----
(***************************************************************************)
(* Shopify customer-accounts checker: the single-store classification      *)
(* routine checkStore (src/lib/checker.ts and its CLI copy src/check.js),  *)
(* the body classifier classifyFromBody, the URL normaliser, and the two   *)
(* batch callers (the POST handler of src/app/api/check/route.ts and the   *)
(* top-level script of src/check.js).                                      *)
(*                                                                         *)
(* Strings are sequences of tokens. A token is a piece of text that no     *)
(* searched pattern cuts in two, so String.includes is a contiguous        *)
(* sub-sequence test and String.startsWith a prefix test.                  *)
(***************************************************************************)
EXTENDS Integers, Sequences, FiniteSets, TLC

VARIABLES
    \* ---- one classification: checkStore(storeUrl) ----
    impl,        \* "lib" (src/lib/checker.ts) or "cli" (src/check.js)
    storeUrl,    \* the argument of checkStore
    pc,          \* "start" | "fetch" (at await fetch) | "text" (at await response.text())
                 \* | "done" (returned) | "threw" (an exception left checkStore)
    loginUrl, currentUrl, lastStatus, i,      \* the locals of checkStore
    response,    \* the response of the last fetch, NoResponse before it
    isShopify,   \* the local isShopify, computed before the body is awaited
    body,        \* the text read from the response
    result,      \* the CheckResult returned, NoResult before the return
    via,         \* which return statement produced result
    thrown,      \* the exception caught by the catch clause, NoError when none
    requests,    \* number of fetch calls issued
    received,    \* number of responses those calls delivered
    bodyReads,   \* number of response.text() calls issued
    \* ---- one batch run: POST /api/check, or node check.js ----
    caller,      \* "endpoint" | "cli" | "none"
    input,       \* the request body / the command line
    bpc,         \* "entry" | "await" (at await Promise.all) | "closed" | "rejected"
                 \* | "crashed" (an uncaught exception) | "exited"
    urls,        \* the normalised URLs the loop runs over
    bi,          \* the loop variable i of the batch loop
    tasks,       \* the promises of the group in flight: "pending" or the settled CheckResult
    emitted,     \* the results enqueued on the stream / pushed to results
    started,     \* the URLs whose checkStore call has been made, in call order
    httpStatus,  \* <<status>> of the HTTP response once POST has answered, <<>> before
    errorPayload,\* the error text of a rejection
    closes,      \* number of controller.close() calls
    exitCode,    \* <<code>> once the CLI process has exited, <<>> before
    printed,     \* what the CLI has written to the console
    world,       \* what each store turns out to be in this run
    lastSettled, \* position in its group of the promise that settled last, 0 before any
    \* ---- one call of parseUrls(input) ----
    npc,         \* "call" (called, not yet returned) | "returned" | "idle"
    rawText,     \* the argument
    parsed,      \* the array returned
    \* ---- one run of the page's handleCheck(input), rawText being the input ----
    \* (npc: "call" | "posted" (request sent, result lines being read) | "finished")
    pending,     \* the page's pending state
    echoed,      \* the url fields of the result lines the response streams, in order
    handled      \* how many result lines the page has processed

cvars == <<impl, storeUrl, pc, loginUrl, currentUrl, lastStatus, i, response,
           isShopify, body, result, via, thrown, requests, received, bodyReads>>
bvars == <<caller, input, bpc, urls, bi, tasks, emitted, started, httpStatus,
           errorPayload, closes, exitCode, printed, world, lastSettled>>
nvars == <<npc, rawText, parsed, pending, echoed, handled>>
vars == <<cvars, bvars, nvars>>

(***************************************************************************)
(* Strings                                                                 *)
(***************************************************************************)
\* String.prototype.includes
Includes(s, p) ==
    \E k \in 1..(Len(s) - Len(p) + 1) : SubSeq(s, k, k + Len(p) - 1) = p

\* String.prototype.startsWith
startsWith(s, p) == Len(s) >= Len(p) /\ SubSeq(s, 1, Len(p)) = p

(***************************************************************************)
(* URLs: new URL(u), new URL(rel, base)                                    *)
(***************************************************************************)
HostTokens == {"store.example", "account.custom.example", "accounts.", "shopify",
               ".com", "account", "a.com", "b.com"}
PathTokens == {"/account", "/login", "/auth", "/authentication", "/123"}
Unslash == [t \in PathTokens |->
              CASE t = "/account" -> "account" [] t = "/login" -> "login"
                [] t = "/auth" -> "auth" [] t = "/authentication" -> "authentication"
                [] OTHER -> "123"]

RECURSIVE HostRun(_)
HostRun(s) ==
    IF s # <<>> /\ Head(s) \in HostTokens THEN <<Head(s)>> \o HostRun(Tail(s)) ELSE <<>>

InvalidUrl == [valid |-> FALSE]

\* new URL(u): scheme "http" or "https", then the host up to the first "/".
\* After a special scheme the parser accepts a missing "//" and takes the first
\* segment as the host ("https:/account/login" is https://account/login);
\* an empty host is a failure.
ParseUrl(u) ==
    IF Len(u) >= 3 /\ u[1] = "http" /\ u[2] \in {"s://", "://"}
                   /\ HostRun(SubSeq(u, 3, Len(u))) # <<>>
    THEN [valid |-> TRUE, scheme |-> <<u[1], u[2]>>,
          hostname |-> HostRun(SubSeq(u, 3, Len(u)))]
    ELSE IF Len(u) >= 3 /\ u[1] = "http" /\ u[2] = "s:" /\ u[3] \in PathTokens
    THEN [valid |-> TRUE, scheme |-> <<"http", "s://">>, hostname |-> <<Unslash[u[3]]>>]
    ELSE InvalidUrl

\* new URL(location, currentUrl).href for a location that does not start with
\* "http": an absolute-path reference keeps the base's origin; a reference
\* "//" names an empty host and fails.
Resolve(location, base) ==
    IF ParseUrl(base).valid /\ location # <<>> /\ location[1] \in PathTokens
    THEN [valid |-> TRUE,
          href |-> ParseUrl(base).scheme \o ParseUrl(base).hostname \o location]
    ELSE InvalidUrl

(***************************************************************************)
(* The values one classification handles                                   *)
(***************************************************************************)
AccountType == {"new", "legacy", "password-protected", "not-shopify", "unknown", "error"}

NoResponse == [none |-> TRUE]
NoResult == [none |-> TRUE]
NoError == [none |-> TRUE]
\* let lastStatus; of check.js: undefined until the first response
Undefined == -1
\* a loop bound one too large
maxRedirects_seven == 6 + 1
maxRedirects == 6

\* The store URLs tried: a plain store, "https:" (what normalizeUrl makes of
\* "https://"; its login URL "https:/account/login" parses, the store URL alone
\* does not), and "httpfoo" (starts with "http", is no URL).
StoreUrls == { <<"http", "s://", "store.example">>, <<"http", "s:">>, <<"http", "foo">> }

\* Location header values; <<>> is an absent (or empty) header.
Locations == {
    <<>>,
    <<"http", "s://", "accounts.", "shopify", ".com", "/login">>,
    <<"http", "s://", "shopify", ".com", "/authentication", "/123">>,
    <<"/auth", "/login">>,
    <<"/account", "/login">>,
    <<"/account">>,
    <<"http", "s://", "account.custom.example", "/login">>,
    <<"http", "foo">>,
    <<"//">> }

Statuses == {200, 299, 300, 302, 399, 400, 401, 404, 406, 500}

\* null, as a value no text equals
Null == <<"<null>">>

\* response.headers.get(name) for the three fingerprint headers: null when the
\* header is absent, its text (which may be empty) when it is present
NoHeaders == [poweredBy |-> Null, shopId |-> Null, serverTiming |-> Null]
HeaderSets == {
    NoHeaders,
    [NoHeaders EXCEPT !.shopId = <<>>],
    [NoHeaders EXCEPT !.poweredBy = <<"Shopify">>],
    [NoHeaders EXCEPT !.poweredBy = <<"Express">>],
    [NoHeaders EXCEPT !.shopId = <<"12345">>],
    [NoHeaders EXCEPT !.serverTiming = <<"cdn;desc=", "shopify">>],
    [NoHeaders EXCEPT !.serverTiming = <<"pageType", ";desc=login">>] }

\* The responses the transport may deliver. The three fingerprint headers are
\* read on a status-200 response only, so they vary only there; a 200 carries
\* no Location, one with a new-account signal, or one without.
Responses ==
    { [status |-> st, location |-> loc, headers |-> h] :
        st \in Statuses \ {200}, loc \in Locations, h \in {NoHeaders} }
    \cup
    { [status |-> 200, location |-> loc, headers |-> h] :
        loc \in { l \in Locations : l = <<>> \/ l = <<"/account">>
                                      \/ Includes(l, <<"shopify", ".com">>)
                                      \/ Includes(l, <<"/auth">>) },
        h \in HeaderSets }

\* fetch, response.text() and new URL reject with Error instances.
FetchFailed == [isError |-> TRUE, message |-> "fetch failed"]
ParseFailed == [isError |-> TRUE, message |-> "Invalid URL"]
BodyFailed == [isError |-> TRUE, message |-> "terminated"]

\* Pieces of page text; a body is some of them joined by blanks.
BodyFragments == <<
    <<"SignInWithShop">>,
    <<"accounts.", "shopify", ".com">>,
    <<"init-", "customer", "-accounts">>,
    <<"action=\"", "/account", "/login", "\"", " ", "name=\"", "customer", "[email]\"",
      " ", "type=\"password\"">>,
    <<"customer", "_login">>,
    <<"type=\"password\"">>,
    <<"customer">>,
    <<"password-page">>,
    <<"storefront-password">>,
    <<"Shopify">>,
    <<"my", "shopify">> >>

MaxBodyFrags == 2

RECURSIVE SubsetsUpTo(_, _)
SubsetsUpTo(S, k) ==
    IF k = 0 THEN {{}}
    ELSE LET P == SubsetsUpTo(S, k - 1) IN P \cup { s \cup {x} : s \in P, x \in S }

RECURSIVE JoinFrom(_, _)
JoinFrom(k, S) ==
    IF k > Len(BodyFragments) THEN <<>>
    ELSE IF k \in S THEN BodyFragments[k] \o <<" ">> \o JoinFrom(k + 1, S)
    ELSE JoinFrom(k + 1, S)

Bodies == { JoinFrom(1, S) : S \in SubsetsUpTo(1..Len(BodyFragments), MaxBodyFrags) }

(***************************************************************************)
(* src/lib/checker.ts, src/check.js: the classifier                        *)
(***************************************************************************)
NEW_ACCOUNT_REDIRECT_PATTERNS == {
    <<"shopify", ".com", "/authentication">>,
    <<"/auth", "/login">>,
    <<"accounts.", "shopify", ".com">> }

isNewAccountRedirect(url) == \E p \in NEW_ACCOUNT_REDIRECT_PATTERNS : Includes(url, p)

newAccountSignals == {
    <<"shopify", ".com", "/authentication">>,
    <<"accounts.", "shopify", ".com">>,
    <<"init-", "customer", "-accounts">>,
    <<"initCustomerAccounts">>,
    <<"init-shop-for-new-", "customer", "-accounts">>,
    <<"shopify", "-login">>,
    <<"SignInWithShop">> }

legacySignals == {
    <<"customer", "[password]">>,
    <<"customer", "_login">>,
    <<"name=\"", "customer", "[email]\"">>,
    <<"action=\"", "/account", "/login", "\"">>,
    <<"action=\"", "/account", "\"">> }

hasNewSignal(b) == \E signal \in newAccountSignals : Includes(b, signal)
hasLegacySignal(b) == \E signal \in legacySignals : Includes(b, signal)
hasPasswordField(b) == Includes(b, <<"type=\"password\"">>) /\ Includes(b, <<"customer">>)

\* classifyFromBody without its third rule
classifyFromBody_noThird(url, b, status) ==
    IF hasNewSignal(b) /\ ~hasPasswordField(b)
    THEN [url |-> url, type |-> "new", status |-> status]
    ELSE IF hasPasswordField(b) /\ hasLegacySignal(b)
    THEN [url |-> url, type |-> "legacy", status |-> status]
    ELSE IF hasPasswordField(b)
    THEN [url |-> url, type |-> "legacy", status |-> status]
    ELSE IF Includes(b, <<"password-page">>) \/ Includes(b, <<"storefront-password">>)
    THEN [url |-> url, type |-> "password-protected", status |-> status,
          note |-> <<"Store is password-protected (not yet live)">>]
    ELSE IF ~Includes(b, <<"Shopify">>) /\ ~Includes(b, <<"shopify">>)
    THEN [url |-> url, type |-> "not-shopify", status |-> status,
          note |-> <<"Does not appear to be a Shopify store">>]
    ELSE [url |-> url, type |-> "unknown", status |-> status,
          note |-> <<"Could not determine account type from page content">>]

\* classifyFromBody with the second and third rules in the other order
classifyFromBody_newFirst(url, b, status) ==
    IF hasNewSignal(b)
    THEN [url |-> url, type |-> "new", status |-> status]
    ELSE IF hasPasswordField(b)
    THEN [url |-> url, type |-> "legacy", status |-> status]
    ELSE IF Includes(b, <<"password-page">>) \/ Includes(b, <<"storefront-password">>)
    THEN [url |-> url, type |-> "password-protected", status |-> status,
          note |-> <<"Store is password-protected (not yet live)">>]
    ELSE IF ~Includes(b, <<"Shopify">>) /\ ~Includes(b, <<"shopify">>)
    THEN [url |-> url, type |-> "not-shopify", status |-> status,
          note |-> <<"Does not appear to be a Shopify store">>]
    ELSE [url |-> url, type |-> "unknown", status |-> status,
          note |-> <<"Could not determine account type from page content">>]

classifyFromBody(url, b, status) ==
    IF hasNewSignal(b) /\ ~hasPasswordField(b)
    THEN [url |-> url, type |-> "new", status |-> status]
    ELSE IF hasPasswordField(b) /\ hasLegacySignal(b)
    THEN [url |-> url, type |-> "legacy", status |-> status]
    ELSE IF hasNewSignal(b)
    THEN [url |-> url, type |-> "new", status |-> status]
    ELSE IF hasPasswordField(b)
    THEN [url |-> url, type |-> "legacy", status |-> status]
    ELSE IF Includes(b, <<"password-page">>) \/ Includes(b, <<"storefront-password">>)
    THEN [url |-> url, type |-> "password-protected", status |-> status,
          note |-> <<"Store is password-protected (not yet live)">>]
    ELSE IF ~Includes(b, <<"Shopify">>) /\ ~Includes(b, <<"shopify">>)
    THEN [url |-> url, type |-> "not-shopify", status |-> status,
          note |-> <<"Does not appear to be a Shopify store">>]
    ELSE [url |-> url, type |-> "unknown", status |-> status,
          note |-> <<"Could not determine account type from page content">>]

\* A catch clause that asks again as long as the loop has iterations left
catchClause_retry(err) ==
    IF i + 1 < maxRedirects
    THEN [pc |-> "fetch", result |-> NoResult]
    ELSE [pc |-> "done",
          result |-> [url |-> storeUrl, type |-> "error", error |-> err.message]]

\* catchClause without the try: the exception leaves checkStore
catchClause_rethrow(err) == [pc |-> "threw", result |-> NoResult]

\* catchClause that also reports the last status
catchClause_withStatus(err) ==
    [pc |-> "done",
     result |-> [url |-> storeUrl, type |-> "error", status |-> lastStatus,
                 error |-> err.message]]

\* The error text either copy of the routine reports:
\*   lib: err instanceof Error ? err.message : String(err)
\*   cli: err.message
errorOf(im, err) ==
    IF im = "lib" THEN (IF err.isError THEN err.message ELSE err.str) ELSE err.message

\* The catch clause of checkStore: the exception becomes the result.
catchClause(err) ==
    [pc |-> "done",
     result |-> [url |-> storeUrl, type |-> "error", error |-> errorOf(impl, err)]]

\* response.headers.get(name) || ""
orEmpty(v) == IF v = Null THEN <<>> ELSE v

\* The fingerprint of the 200 branch
fingerprint(h) ==
    \/ Includes(orEmpty(h.poweredBy), <<"Shopify">>)
    \/ orEmpty(h.shopId) # <<>>
    \/ Includes(orEmpty(h.serverTiming), <<"shopify">>)
    \/ Includes(orEmpty(h.serverTiming), <<"pageType">>)

\* A JavaScript value is truthy: true, or a text that is not empty
truthy(v) == IF "bool" \in DOMAIN v THEN v.bool ELSE v.str # <<>>

\* the script's isShopify without the x-shopid operand
fingerprintCli_noShopId(h) ==
    [bool |-> \/ Includes(orEmpty(h.poweredBy), <<"Shopify">>)
              \/ Includes(orEmpty(h.serverTiming), <<"shopify">>)
              \/ Includes(orEmpty(h.serverTiming), <<"pageType">>)]

\* isShopify of check.js: a || shopId || c || d is true, the text of x-shopid,
\* or false
fingerprintCli(h) ==
    IF Includes(orEmpty(h.poweredBy), <<"Shopify">>) THEN [bool |-> TRUE]
    ELSE IF orEmpty(h.shopId) # <<>> THEN [str |-> orEmpty(h.shopId)]
    ELSE [bool |-> \/ Includes(orEmpty(h.serverTiming), <<"shopify">>)
                   \/ Includes(orEmpty(h.serverTiming), <<"pageType">>)]

\* What !isShopify later tests, in either copy of the routine
isShopifyOf(im, h) == IF im = "lib" THEN fingerprint(h) ELSE truthy(fingerprintCli(h))

\* finalResponse that reads the body of a 404 as it does of a 200
finalResponse_404body(resp) ==
    IF resp.status = 200 \/ resp.status = 404
    THEN [kind |-> "text", isShopify |-> isShopifyOf(impl, resp.headers)]
    ELSE [kind |-> "return", via |-> "unexpected",
          result |-> [url |-> storeUrl, type |-> "unknown", status |-> resp.status,
                      note |-> <<"Unexpected status ", resp.status, " at ", currentUrl>>]]

\* The statements after the 406 rule: the 200, 404 and fall-through branches.
finalResponse(resp) ==
    IF resp.status = 200
    THEN [kind |-> "text", isShopify |-> isShopifyOf(impl, resp.headers)]
    ELSE IF resp.status = 404
    THEN [kind |-> "return", via |-> "404",
          result |-> [url |-> storeUrl, type |-> "not-shopify", status |-> resp.status,
                      note |-> <<"No /account/login page found - likely not a Shopify store">>]]
    ELSE [kind |-> "return", via |-> "unexpected",
          result |-> [url |-> storeUrl, type |-> "unknown", status |-> resp.status,
                      note |-> <<"Unexpected status ", resp.status, " at ", currentUrl>>]]

\* The 406 rule without the comparison of the hostnames
customDomain_anyHost(resp) ==
    IF resp.status = 406 /\ currentUrl # loginUrl
    THEN IF ~ParseUrl(currentUrl).valid \/ ~ParseUrl(storeUrl).valid
         THEN [kind |-> "throw", err |-> ParseFailed]
         ELSE [kind |-> "return", via |-> "custom406",
               result |-> [url |-> storeUrl, type |-> "new", status |-> resp.status,
                           note |-> <<"Redirected to custom account domain: ",
                                      ParseUrl(currentUrl).hostname>>]]
    ELSE finalResponse(resp)

\* The 406 rule reporting the custom account URL as redirect
customDomain_withRedirect(resp) ==
    IF resp.status = 406 /\ currentUrl # loginUrl
    THEN IF ~ParseUrl(currentUrl).valid \/ ~ParseUrl(storeUrl).valid
         THEN [kind |-> "throw", err |-> ParseFailed]
         ELSE IF ParseUrl(currentUrl).hostname # ParseUrl(storeUrl).hostname
         THEN [kind |-> "return", via |-> "custom406",
               result |-> [url |-> storeUrl, type |-> "new", status |-> resp.status,
                           redirect |-> currentUrl,
                           note |-> <<"Redirected to custom account domain: ",
                                      ParseUrl(currentUrl).hostname>>]]
         ELSE finalResponse(resp)
    ELSE finalResponse(resp)

\* The 406 rule: a 406 from a URL other than the login URL, on another host.
customDomain(resp) ==
    IF resp.status = 406 /\ currentUrl # loginUrl
    THEN IF ~ParseUrl(currentUrl).valid \/ ~ParseUrl(storeUrl).valid
         THEN [kind |-> "throw", err |-> ParseFailed]
         ELSE IF ParseUrl(currentUrl).hostname # ParseUrl(storeUrl).hostname
         THEN [kind |-> "return", via |-> "custom406",
               result |-> [url |-> storeUrl, type |-> "new", status |-> resp.status,
                           note |-> <<"Redirected to custom account domain: ",
                                      ParseUrl(currentUrl).hostname>>]]
         ELSE finalResponse(resp)
    ELSE finalResponse(resp)

\* The redirect rule asking again when a 3xx names no Location
followRedirect_retry(resp) ==
    IF resp.status >= 300 /\ resp.status < 400
    THEN IF resp.location = <<>>
         THEN [kind |-> "continue", currentUrl |-> currentUrl]
         ELSE IF startsWith(resp.location, <<"http">>)
         THEN [kind |-> "continue", currentUrl |-> resp.location]
         ELSE IF Resolve(resp.location, currentUrl).valid
         THEN [kind |-> "continue", currentUrl |-> Resolve(resp.location, currentUrl).href]
         ELSE [kind |-> "throw", err |-> ParseFailed]
    ELSE customDomain(resp)

\* The redirect rule: a 3xx with a Location is followed.
followRedirect(resp) ==
    IF resp.status >= 300 /\ resp.status < 400 /\ resp.location # <<>>
    THEN IF startsWith(resp.location, <<"http">>)
         THEN [kind |-> "continue", currentUrl |-> resp.location]
         ELSE IF Resolve(resp.location, currentUrl).valid
         THEN [kind |-> "continue", currentUrl |-> Resolve(resp.location, currentUrl).href]
         ELSE [kind |-> "throw", err |-> ParseFailed]
    ELSE customDomain(resp)

\* onResponse with the Location signal honoured on a 3xx only
onResponse_only3xx(resp) ==
    IF resp.status >= 300 /\ resp.status < 400
       /\ resp.location # <<>> /\ isNewAccountRedirect(resp.location)
    THEN [kind |-> "return", via |-> "location",
          result |-> [url |-> storeUrl, type |-> "new", status |-> resp.status,
                      redirect |-> resp.location]]
    ELSE followRedirect(resp)

\* One loop iteration from the response on: what the body of the for loop does
\* with a response, up to its return, its continue, its throw or the await of
\* response.text().
onResponse(resp) ==
    IF resp.location # <<>> /\ isNewAccountRedirect(resp.location)
    THEN [kind |-> "return", via |-> "location",
          result |-> [url |-> storeUrl, type |-> "new", status |-> resp.status,
                      redirect |-> resp.location]]
    ELSE followRedirect(resp)

\* The return after the loop
tooManyRedirects(status) ==
    [url |-> storeUrl, type |-> "unknown", status |-> status, note |-> <<"Too many redirects">>]

\* onBody without the pre-check: every body goes to classifyFromBody
onBody_noPrecheck(b) == [via |-> "body", result |-> classifyFromBody(storeUrl, b, lastStatus)]

\* The pre-check of the 200 branch and the hand-over to classifyFromBody
onBody(b) ==
    IF ~isShopify /\ ~Includes(b, <<"Shopify">>) /\ ~Includes(b, <<"my", "shopify">>)
    THEN [via |-> "precheck",
          result |-> [url |-> storeUrl, type |-> "not-shopify", status |-> lastStatus,
                      note |-> <<"Does not appear to be a Shopify store">>]]
    ELSE [via |-> "body", result |-> classifyFromBody(storeUrl, b, lastStatus)]

\* What fetch(currentUrl) may do: reject on a string that is no URL, else
\* reject (DNS, connection) or deliver any response.
FetchOutcomes(u) ==
    IF ~ParseUrl(u).valid THEN { [throws |-> TRUE, err |-> ParseFailed] }
    ELSE { [throws |-> TRUE, err |-> FetchFailed] }
         \cup { [throws |-> FALSE, resp |-> r] : r \in Responses }

TextOutcomes ==
    { [throws |-> TRUE, err |-> BodyFailed] } \cup { [throws |-> FALSE, text |-> b] : b \in Bodies }

(***************************************************************************)
(* One classification, step by step                                        *)
(***************************************************************************)
Throw(err) ==
    /\ pc' = catchClause(err).pc
    /\ result' = catchClause(err).result
    /\ via' = "catch"
    /\ thrown' = err

Return(r, v) ==
    /\ pc' = "done"
    /\ result' = r
    /\ via' = v
    /\ thrown' = thrown

\* checkStore is called: the statements before the loop
Start ==
    /\ pc = "start"
    /\ loginUrl' = storeUrl \o <<"/account", "/login">>
    /\ currentUrl' = storeUrl \o <<"/account", "/login">>
    /\ lastStatus' = IF impl = "lib" THEN 0 ELSE Undefined
    /\ i' = 0
    /\ pc' = "fetch"
    /\ UNCHANGED <<impl, storeUrl, response, isShopify, body, result, via, thrown,
                   requests, received, bodyReads>>
    /\ UNCHANGED bvars
    /\ UNCHANGED nvars

\* await fetch(currentUrl, ...) settles, and the loop body runs to its next
\* await, return, continue or throw
Fetch ==
    /\ pc = "fetch"
    /\ i < maxRedirects
    /\ requests' = requests + 1
    /\ \E o \in FetchOutcomes(currentUrl) :
         IF o.throws
         THEN /\ Throw(o.err)
              /\ UNCHANGED <<lastStatus, currentUrl, i, response, isShopify, received>>
         ELSE LET e == onResponse(o.resp) IN
              /\ response' = o.resp
              /\ received' = received + 1
              /\ lastStatus' = o.resp.status
              /\ CASE e.kind = "return" ->
                        /\ Return(e.result, e.via)
                        /\ UNCHANGED <<currentUrl, i, isShopify>>
                   [] e.kind = "throw" ->
                        /\ Throw(e.err)
                        /\ UNCHANGED <<currentUrl, i, isShopify>>
                   [] e.kind = "text" ->
                        /\ pc' = "text"
                        /\ isShopify' = e.isShopify
                        /\ UNCHANGED <<currentUrl, i, result, via, thrown>>
                   [] e.kind = "continue" ->
                        /\ currentUrl' = e.currentUrl
                        /\ i' = i + 1
                        /\ isShopify' = isShopify
                        /\ IF i + 1 < maxRedirects
                           THEN pc' = "fetch" /\ UNCHANGED <<result, via, thrown>>
                           ELSE Return(tooManyRedirects(o.resp.status), "tooMany")
    /\ UNCHANGED <<impl, storeUrl, loginUrl, body, bodyReads>>
    /\ UNCHANGED bvars
    /\ UNCHANGED nvars

\* await response.text() settles, and the 200 branch runs to its return
ReadBody ==
    /\ pc = "text"
    /\ bodyReads' = bodyReads + 1
    /\ \E o \in TextOutcomes :
         IF o.throws
         THEN Throw(o.err) /\ body' = body
         ELSE /\ body' = o.text
              /\ Return(onBody(o.text).result, onBody(o.text).via)
    /\ UNCHANGED <<impl, storeUrl, loginUrl, currentUrl, lastStatus, i, response,
                   isShopify, requests, received>>
    /\ UNCHANGED bvars
    /\ UNCHANGED nvars

(***************************************************************************)
(* normalizeUrl, parseUrls                                                 *)
(***************************************************************************)
Whitespace == {" ", "\t", "\r", "\n"}

RECURSIVE trimStart(_)
trimStart(s) == IF s # <<>> /\ Head(s) \in Whitespace THEN trimStart(Tail(s)) ELSE s

RECURSIVE trimEnd(_)
trimEnd(s) ==
    IF s # <<>> /\ s[Len(s)] \in Whitespace THEN trimEnd(SubSeq(s, 1, Len(s) - 1)) ELSE s

\* String.prototype.trim
trim(s) == trimEnd(trimStart(s))

\* url.replace(/\/+$/, ""): the tokens "s://" and "://" end in slashes too
RECURSIVE stripTrailingSlashes(_)
stripTrailingSlashes(s) ==
    IF s = <<>> THEN s
    ELSE IF s[Len(s)] = "/" THEN stripTrailingSlashes(SubSeq(s, 1, Len(s) - 1))
    ELSE IF s[Len(s)] = "s://" THEN SubSeq(s, 1, Len(s) - 1) \o <<"s:">>
    ELSE IF s[Len(s)] = "://" THEN SubSeq(s, 1, Len(s) - 1) \o <<":">>
    ELSE s

\* normalizeUrl that strips the trailing slashes before it trims
normalizeUrl_stripFirst(inp) ==
    LET url == trim(stripTrailingSlashes(inp)) IN
    IF url = <<>> THEN Null
    ELSE IF startsWith(url, <<"#">>) THEN Null
    ELSE IF ~startsWith(url, <<"http">>) THEN <<"http", "s://">> \o url
    ELSE url

normalizeUrl(inp) ==
    LET url == trim(inp) IN
    IF url = <<>> THEN Null
    ELSE IF startsWith(url, <<"#">>) THEN Null
    ELSE IF ~startsWith(url, <<"http">>)
    THEN stripTrailingSlashes(<<"http", "s://">> \o url)
    ELSE stripTrailingSlashes(url)

\* String.prototype.split on a separator set: with collapse (the regex
\* /[\n,]+/) a run of separators is one separator.
RECURSIVE SplitAcc(_, _, _, _)
SplitAcc(s, seps, collapse, cur) ==
    IF s = <<>> THEN <<cur>>
    ELSE IF Head(s) \in seps
    THEN IF collapse /\ Len(s) > 1 /\ s[2] \in seps
         THEN SplitAcc(Tail(s), seps, collapse, cur)
         ELSE <<cur>> \o SplitAcc(Tail(s), seps, collapse, <<>>)
    ELSE SplitAcc(Tail(s), seps, collapse, Append(cur, Head(s)))

split(s, seps, collapse) == SplitAcc(s, seps, collapse, <<>>)

\* xs.map(normalizeUrl).filter((u) => u !== null), over xs[lo..hi]
RECURSIVE normalizeRange(_, _, _)
normalizeRange(xs, lo, hi) ==
    IF lo > hi THEN <<>>
    ELSE IF lo = hi
    THEN (IF normalizeUrl(xs[lo]) = Null THEN <<>> ELSE <<normalizeUrl(xs[lo])>>)
    ELSE normalizeRange(xs, lo, (lo + hi) \div 2) \o normalizeRange(xs, (lo + hi) \div 2 + 1, hi)

normalizeAll(xs) == normalizeRange(xs, 1, Len(xs))

\* parseUrls that splits on newlines only
parseUrls_newlinesOnly(inp) == normalizeAll(split(inp, {"\n"}, TRUE))

\* input.split(/[\n,]+/).map(normalizeUrl).filter((u) => u !== null)
parseUrls(inp) == normalizeAll(split(inp, {"\n", ","}, TRUE))

\* The pieces an input text is made of, and the texts of up to MaxTextLen pieces
TextTokens == {" ", "\n", ",", "#", "http", "s://", "a.com", "/"}
MaxTextLen == 5
Texts == UNION { [1..n -> TextTokens] : n \in 0..MaxTextLen }

\* parseUrls(rawText) runs to its return
ParseUrls ==
    /\ npc = "call"
    /\ parsed' = parseUrls(rawText)
    /\ npc' = "returned"
    /\ UNCHANGED <<rawText, pending, echoed, handled>>
    /\ UNCHANGED <<cvars, bvars>>

(***************************************************************************)
(* The inputs of a batch run                                               *)
(***************************************************************************)
CONCURRENCY == 5
\* .slice(0, 100) of the POST handler
URL_CAP == 100

\* An array element that is no string (a number): parseUrls calls .split on it
NotAString == <<"<number>">>

\* Entries of the urls array, and positional arguments
RawA == <<"a.com">>
RawB == <<" ", "http", "s://", "b.com", "/", " ">>
RawTwo == <<"a.com", ",", "b.com", "\n", "#", "c.com">>
RawComment == <<"#", "comment">>
RawBlank == <<" ">>

RawPatterns == { <<RawA>>, <<RawA, RawB, RawTwo, RawComment>>, <<RawComment, RawBlank>>,
                 <<RawA, NotAString>> }
CliPatterns == { <<RawA>>, <<RawA, RawB, RawComment, RawBlank>> }

\* The raw list of length n that repeats pattern p
RawArray(p, n) == [k \in 1..n |-> p[((k - 1) % Len(p)) + 1]]

SmallMax == 6
OverCap == 50
SmallSizes == 0..SmallMax
BigSizes == {URL_CAP - 1, URL_CAP, URL_CAP + 1, URL_CAP + OverCap}
Sizes == SmallSizes \cup BigSizes

\* The JSON body of the request: unparsable, null, or an object whose urls is
\* absent, null, a string, a number or an array
EndpointInputs ==
    { [json |-> "invalid"], [json |-> "null"] }
    \cup { [json |-> "object", urls |-> [tag |-> t]] : t \in {"absent", "null", "string", "number"} }
    \cup { [json |-> "object", urls |-> [tag |-> "array", items |-> RawArray(p, n)]] :
             p \in RawPatterns, n \in Sizes }

NoFile == [tag |-> "none"]
Files == { NoFile, [tag |-> "missing"],
           [tag |-> "text", text |-> <<"#", "stores", "\n", " ", "\n">>],
           [tag |-> "text", text |-> <<"a.com", "\n", "#", "x", "\n", "b.com", "/", "\r", "\n">>] }

\* The command line: --help, -f <file>, positional arguments (a file with a
\* short list of arguments, or a long list of arguments alone)
CliInputs ==
    { [help |-> TRUE, file |-> NoFile, positionals |-> <<RawA>>] }
    \cup { [help |-> FALSE, file |-> f, positionals |-> RawArray(p, n)] :
             f \in Files, p \in CliPatterns, n \in SmallSizes }
    \cup { [help |-> FALSE, file |-> NoFile, positionals |-> RawArray(p, n)] :
             p \in CliPatterns, n \in BigSizes }

\* What the stores turn out to be: the type checkStore settles with, for a.com
\* and for every other store
Worlds == { <<"new", "new">>, <<"legacy", "error">> }

(***************************************************************************)
(* src/app/api/check/route.ts POST, src/check.js top level                 *)
(***************************************************************************)
Min(a, b) == IF a < b THEN a ELSE b

\* rawUrls.flatMap((u) => parseUrls(u)), over raw[lo..hi]
RECURSIVE flatMapRange(_, _, _)
flatMapRange(raw, lo, hi) ==
    IF lo > hi THEN <<>>
    ELSE IF lo = hi THEN parseUrls(raw[lo])
    ELSE flatMapRange(raw, lo, (lo + hi) \div 2) \o flatMapRange(raw, (lo + hi) \div 2 + 1, hi)

flatMapParseUrls(raw) == flatMapRange(raw, 1, Len(raw))

\* no cap at all
capUrls_none(us) == us

\* .slice(0, 100)
capUrls(us) == SubSeq(us, 1, Min(Len(us), URL_CAP))

(***************************************************************************)
(* The page: handleCheck and its pending list                              *)
(***************************************************************************)
NonEmpty(u) == u # <<>>

\* input.split(/[\n,]+/).map((u) => u.trim()).filter(Boolean)
handleCheckUrls(text) ==
    LET pieces == split(text, {"\n", ","}, TRUE)
    IN SelectSeq([k \in 1..Len(pieces) |-> trim(pieces[k])], NonEmpty)

\* (u.trim().startsWith("http") ? u.trim() : `https://${u.trim()}`).replace(/\/+$/, "")
pendingNormalized(u) ==
    stripTrailingSlashes(IF startsWith(trim(u), <<"http">>)
                         THEN trim(u)
                         ELSE <<"http", "s://">> \o trim(u))

\* prev.filter((u) => normalized(u) !== result.url)
pendingFilter(prev, url) ==
    LET keep(u) == pendingNormalized(u) # url IN SelectSeq(prev, keep)

\* The pieces of a pasted text, and the texts of up to MaxPastedLen pieces
PastedTokens == {" ", "\n", ",", "#", "http", "a.com", "/"}
MaxPastedLen == 5
Pasted == UNION { [1..n -> PastedTokens] : n \in 0..MaxPastedLen }

\* handleCheck up to the arrival of the response: the entries become pending
\* and are posted; the endpoint streams one result per url it kept, in input
\* order, each echoing its url (none, with status 400, when it kept no url).
HandleCheck ==
    /\ npc = "call"
    /\ handleCheckUrls(rawText) # <<>>
    /\ pending' = handleCheckUrls(rawText)
    /\ echoed' = capUrls(flatMapParseUrls(handleCheckUrls(rawText)))
    /\ handled' = 0
    /\ npc' = "posted"
    /\ UNCHANGED <<rawText, parsed>>
    /\ UNCHANGED <<cvars, bvars>>

\* One result line is read: the pending entries that normalise to its url go
ResultLine ==
    /\ npc = "posted"
    /\ handled < Len(echoed)
    /\ pending' = pendingFilter(pending, echoed[handled + 1])
    /\ handled' = handled + 1
    /\ UNCHANGED <<npc, rawText, parsed, echoed>>
    /\ UNCHANGED <<cvars, bvars>>

\* The stream is done (or the response was not ok): catch / finally clear pending
HandleCheckDone ==
    /\ npc = "posted"
    /\ handled = Len(echoed)
    /\ pending' = <<>>
    /\ npc' = "finished"
    /\ UNCHANGED <<rawText, parsed, echoed, handled>>
    /\ UNCHANGED <<cvars, bvars>>

\* urls.slice(i): the group is everything that is left
batchSlice_rest(us, k) == SubSeq(us, k + 1, Len(us))

\* urls.slice(i, i + CONCURRENCY)
batchSlice(us, k) == SubSeq(us, k + 1, Min(k + CONCURRENCY, Len(us)))

\* batch.map(checkStore): one pending promise per URL of the group
Pending(u) == [state |-> "pending", url |-> u]
launch(batch) == [j \in 1..Len(batch) |-> Pending(batch[j])]

\* The CheckResult a checkStore(u) promise fulfils with: every return of
\* checkStore carries url: storeUrl
settledValue(u) ==
    [url |-> u, type |-> IF Includes(u, <<"a.com">>) THEN world[1] ELSE world[2]]

\* The values with equal ones merged, as a Set of results would give them
RECURSIVE uniqueFrom(_, _)
uniqueFrom(vals, k) ==
    IF k > Len(vals) THEN <<>>
    ELSE IF \E j \in 1..(k - 1) : vals[j] = vals[k] THEN uniqueFrom(vals, k + 1)
    ELSE <<vals[k]>> \o uniqueFrom(vals, k + 1)

promiseAll_unique(ts) == uniqueFrom([j \in 1..Len(ts) |-> ts[j].value], 1)

\* The values of the group, last promise first
promiseAll_reversed(ts) == [j \in 1..Len(ts) |-> ts[Len(ts) + 1 - j].value]

\* await Promise.all(promises): the values in the order of the promises
promiseAll(ts) == [j \in 1..Len(ts) |-> ts[j].value]

\* encoder.encode(JSON.stringify(result) + "\n")
chunkOf(r) == <<r, "\n">>

\* postOutcome without the Array.isArray test: flatMap is called on a non-array
postOutcome_noArrayCheck(inp) ==
    IF inp.json # "object" THEN [kind |-> "crash"]
    ELSE IF inp.urls.tag \in {"absent", "null"}
    THEN [kind |-> "reject", error |-> "No URLs provided"]
    ELSE IF inp.urls.tag # "array" THEN [kind |-> "crash"]
    ELSE IF Len(inp.urls.items) = 0
    THEN [kind |-> "reject", error |-> "No URLs provided"]
    ELSE IF \E k \in 1..Len(inp.urls.items) : inp.urls.items[k] = NotAString
    THEN [kind |-> "crash"]
    ELSE IF Len(capUrls(flatMapParseUrls(inp.urls.items))) = 0
    THEN [kind |-> "reject", error |-> "No valid URLs found"]
    ELSE [kind |-> "stream", urls |-> capUrls(flatMapParseUrls(inp.urls.items))]

\* The POST handler up to the stream: the 400s, or the URLs to check
postOutcome(inp) ==
    IF inp.json # "object" THEN [kind |-> "crash"]
    ELSE IF inp.urls.tag \in {"absent", "null"}
            \/ inp.urls.tag # "array"
            \/ Len(inp.urls.items) = 0
    THEN [kind |-> "reject", error |-> "No URLs provided"]
    ELSE IF \E k \in 1..Len(inp.urls.items) : inp.urls.items[k] = NotAString
    THEN [kind |-> "crash"]
    ELSE IF Len(capUrls(flatMapParseUrls(inp.urls.items))) = 0
    THEN [kind |-> "reject", error |-> "No valid URLs found"]
    ELSE [kind |-> "stream", urls |-> capUrls(flatMapParseUrls(inp.urls.items))]

\* POST(request): validation, then new ReadableStream runs start() up to its
\* first await, which launches the first group
EndpointPost ==
    /\ caller = "endpoint" /\ bpc = "entry"
    /\ LET o == postOutcome(input) IN
       CASE o.kind = "crash" ->
              /\ bpc' = "crashed"
              /\ httpStatus' = <<500>>
              /\ UNCHANGED <<urls, bi, tasks, started, errorPayload>>
         [] o.kind = "reject" ->
              /\ bpc' = "rejected"
              /\ httpStatus' = <<400>>
              /\ errorPayload' = o.error
              /\ UNCHANGED <<urls, bi, tasks, started>>
         [] o.kind = "stream" ->
              /\ urls' = o.urls
              /\ bi' = 0
              /\ tasks' = launch(batchSlice(o.urls, 0))
              /\ started' = started \o batchSlice(o.urls, 0)
              /\ httpStatus' = <<200>>
              /\ bpc' = "await"
              /\ UNCHANGED errorPayload
    /\ UNCHANGED <<caller, input, emitted, closes, exitCode, printed, world, lastSettled>>
    /\ UNCHANGED cvars
    /\ UNCHANGED nvars

\* A settle that hands its result on at once, without waiting for the group
Settle_andEmit ==
    /\ bpc = "await"
    /\ \E j \in 1..Len(tasks) :
         /\ tasks[j].state = "pending"
         /\ tasks' = [tasks EXCEPT ![j] = [state |-> "settled",
                                           value |-> settledValue(tasks[j].url)]]
         /\ lastSettled' = j
         /\ emitted' = Append(emitted, IF caller = "endpoint"
                                       THEN chunkOf(settledValue(tasks[j].url))
                                       ELSE settledValue(tasks[j].url))
    /\ UNCHANGED <<caller, input, bpc, urls, bi, started, httpStatus,
                   errorPayload, closes, exitCode, printed, world>>
    /\ UNCHANGED cvars
    /\ UNCHANGED nvars

\* One checkStore promise of the group in flight fulfils
Settle ==
    /\ bpc = "await"
    /\ \E j \in 1..Len(tasks) :
         /\ tasks[j].state = "pending"
         /\ tasks' = [tasks EXCEPT ![j] = [state |-> "settled",
                                           value |-> settledValue(tasks[j].url)]]
         /\ lastSettled' = j
    /\ UNCHANGED <<caller, input, bpc, urls, bi, emitted, started, httpStatus,
                   errorPayload, closes, exitCode, printed, world>>
    /\ UNCHANGED cvars
    /\ UNCHANGED nvars

AllSettled == \A j \in 1..Len(tasks) : tasks[j].state = "settled"

\* start() closing the stream after the first group it has enqueued
EndpointGroupDone_closeEarly ==
    /\ caller = "endpoint" /\ bpc = "await" /\ AllSettled
    /\ LET results == promiseAll(tasks) IN
       emitted' = emitted \o [j \in 1..Len(results) |-> chunkOf(results[j])]
    /\ bi' = bi + CONCURRENCY
    /\ tasks' = <<>>
    /\ closes' = closes + 1
    /\ bpc' = "closed"
    /\ UNCHANGED started
    /\ UNCHANGED <<caller, input, urls, httpStatus, errorPayload, exitCode, printed, world, lastSettled>>
    /\ UNCHANGED cvars
    /\ UNCHANGED nvars

\* start() resumes after await Promise.all: the group's results are enqueued,
\* then the next group is launched or the stream is closed
EndpointGroupDone ==
    /\ caller = "endpoint" /\ bpc = "await" /\ AllSettled
    /\ LET results == promiseAll(tasks) IN
       emitted' = emitted \o [j \in 1..Len(results) |-> chunkOf(results[j])]
    /\ bi' = bi + CONCURRENCY
    /\ IF bi + CONCURRENCY < Len(urls)
       THEN /\ tasks' = launch(batchSlice(urls, bi + CONCURRENCY))
            /\ started' = started \o batchSlice(urls, bi + CONCURRENCY)
            /\ UNCHANGED <<bpc, closes>>
       ELSE /\ tasks' = <<>>
            /\ closes' = closes + 1
            /\ bpc' = "closed"
            /\ UNCHANGED started
    /\ UNCHANGED <<caller, input, urls, httpStatus, errorPayload, exitCode, printed, world, lastSettled>>
    /\ UNCHANGED cvars
    /\ UNCHANGED nvars

\* URL gathering that never reads the file
gatherUrls_positionalsOnly(inp) == normalizeAll(inp.positionals)

\* The script's URL gathering: the file's lines, then the positionals
gatherUrls(inp) ==
    (IF inp.file.tag = "text" THEN normalizeAll(split(inp.file.text, {"\n"}, FALSE)) ELSE <<>>)
    \o normalizeAll(inp.positionals)

typeLabels == [t \in AccountType |->
    CASE t = "new" -> "NEW Customer Accounts"
      [] t = "legacy" -> "LEGACY Customer Accounts"
      [] t = "password-protected" -> "PASSWORD PROTECTED"
      [] t = "not-shopify" -> "NOT A SHOPIFY STORE"
      [] t = "unknown" -> "UNKNOWN"
      [] OTHER -> "ERROR"]

\* The keys of counts, in the order of their first result
firstAt(rs, t) == CHOOSE k \in 1..Len(rs) : rs[k].type = t /\ \A j \in 1..(k - 1) : rs[j].type # t

RECURSIVE byFirst(_, _)
byFirst(rs, ts) ==
    IF ts = {} THEN <<>>
    ELSE LET t == CHOOSE x \in ts : \A y \in ts : firstAt(rs, x) <= firstAt(rs, y)
         IN <<t>> \o byFirst(rs, ts \ {t})

typesSeen(rs) == byFirst(rs, {rs[k].type : k \in 1..Len(rs)})

countOf(rs, t) == Cardinality({k \in 1..Len(rs) : rs[k].type = t})

\* The output after the loop: one line per result, then the summary
report(rs) ==
    [k \in 1..Len(rs) |-> [stream |-> "out", text |-> <<rs[k].url, " - ", typeLabels[rs[k].type]>>]]
    \o <<[stream |-> "out", text |-> <<"--- Summary ---">>]>>
    \o [k \in 1..Len(typesSeen(rs)) |->
          [stream |-> "out",
           text |-> <<typeLabels[typesSeen(rs)[k]], ": ", countOf(rs, typesSeen(rs)[k])>>]]

\* node check.js ...: the script from its first line to its first await
CliMain ==
    /\ caller = "cli" /\ bpc = "entry"
    /\ IF input.help \/ (Len(input.positionals) = 0 /\ input.file.tag = "none")
       THEN /\ printed' = Append(printed, [stream |-> "out", text |-> <<"Usage:">>])
            /\ exitCode' = <<0>>
            /\ bpc' = "exited"
            /\ UNCHANGED <<urls, bi, tasks, started>>
       ELSE IF input.file.tag = "missing"
       THEN \* readFileSync throws: the process dies of the uncaught exception
            /\ exitCode' = <<1>>
            /\ bpc' = "crashed"
            /\ UNCHANGED <<urls, bi, tasks, started, printed>>
       ELSE IF Len(gatherUrls(input)) = 0
       THEN /\ urls' = gatherUrls(input)
            /\ printed' = Append(printed, [stream |-> "err", text |-> <<"No valid URLs provided.">>])
            /\ exitCode' = <<1>>
            /\ bpc' = "exited"
            /\ UNCHANGED <<bi, tasks, started>>
       ELSE /\ urls' = gatherUrls(input)
            /\ printed' = Append(printed,
                   [stream |-> "out",
                    text |-> <<"Checking ", Len(gatherUrls(input)), " store(s)...">>])
            /\ bi' = 0
            /\ tasks' = launch(batchSlice(gatherUrls(input), 0))
            /\ started' = started \o batchSlice(gatherUrls(input), 0)
            /\ bpc' = "await"
            /\ UNCHANGED exitCode
    /\ UNCHANGED <<caller, input, emitted, httpStatus, errorPayload, closes, world, lastSettled>>
    /\ UNCHANGED cvars
    /\ UNCHANGED nvars

\* The script resumes after await Promise.all: the group's results are pushed,
\* then the next group is launched, or the report is written and the script ends
CliGroupDone ==
    /\ caller = "cli" /\ bpc = "await" /\ AllSettled
    /\ emitted' = emitted \o promiseAll(tasks)
    /\ bi' = bi + CONCURRENCY
    /\ IF bi + CONCURRENCY < Len(urls)
       THEN /\ tasks' = launch(batchSlice(urls, bi + CONCURRENCY))
            /\ started' = started \o batchSlice(urls, bi + CONCURRENCY)
            /\ UNCHANGED <<bpc, exitCode, printed>>
       ELSE /\ tasks' = <<>>
            /\ printed' = printed \o report(emitted \o promiseAll(tasks))
            /\ exitCode' = <<0>>
            /\ bpc' = "exited"
            /\ UNCHANGED started
    /\ UNCHANGED <<caller, input, urls, httpStatus, errorPayload, closes, world, lastSettled>>
    /\ UNCHANGED cvars
    /\ UNCHANGED nvars

(***************************************************************************)
(* Specifications                                                          *)
(***************************************************************************)
IdleBatch ==
    /\ caller = "none" /\ input = [json |-> "none"] /\ bpc = "idle"
    /\ urls = <<>> /\ bi = 0 /\ tasks = <<>> /\ emitted = <<>> /\ started = <<>>
    /\ httpStatus = <<>> /\ errorPayload = "" /\ closes = 0 /\ exitCode = <<>>
    /\ printed = <<>> /\ world = <<"new", "new">> /\ lastSettled = 0

IdleNormalize ==
    /\ npc = "idle" /\ rawText = <<>> /\ parsed = <<>>
    /\ pending = <<>> /\ echoed = <<>> /\ handled = 0

IdleClassify ==
    /\ impl = "lib" /\ storeUrl = <<>> /\ pc = "idle"
    /\ loginUrl = <<>> /\ currentUrl = <<>> /\ lastStatus = 0 /\ i = 0
    /\ response = NoResponse /\ isShopify = FALSE /\ body = <<>>
    /\ result = NoResult /\ via = "" /\ thrown = NoError
    /\ requests = 0 /\ received = 0 /\ bodyReads = 0

\* A call checkStore(storeUrl) of either copy of the routine
Init ==
    /\ impl \in {"lib", "cli"}
    /\ storeUrl \in StoreUrls
    /\ pc = "start"
    /\ loginUrl = <<>> /\ currentUrl = <<>> /\ lastStatus = 0 /\ i = 0
    /\ response = NoResponse /\ isShopify = FALSE /\ body = <<>>
    /\ result = NoResult /\ via = "" /\ thrown = NoError
    /\ requests = 0 /\ received = 0 /\ bodyReads = 0
    /\ IdleBatch
    /\ IdleNormalize

Next == Start \/ Fetch \/ ReadBody

Spec == Init /\ [][Next]_vars

\* A request to POST /api/check, or a run of node check.js
InitBatch ==
    /\ caller \in {"endpoint", "cli"}
    /\ input \in (IF caller = "endpoint" THEN EndpointInputs ELSE CliInputs)
    /\ world \in Worlds
    /\ lastSettled = 0
    /\ bpc = "entry"
    /\ urls = <<>> /\ bi = 0 /\ tasks = <<>> /\ emitted = <<>> /\ started = <<>>
    /\ httpStatus = <<>> /\ errorPayload = "" /\ closes = 0 /\ exitCode = <<>>
    /\ printed = <<>>
    /\ IdleClassify
    /\ IdleNormalize

NextBatch == EndpointPost \/ CliMain \/ Settle \/ EndpointGroupDone \/ CliGroupDone

SpecBatch == InitBatch /\ [][NextBatch]_vars

\* A batch run in which every checkStore promise settles, and the event loop
\* resumes the loop once the Promise.all it awaits has fulfilled
SpecBatchFair ==
    /\ SpecBatch
    /\ WF_vars(Settle) /\ WF_vars(EndpointGroupDone) /\ WF_vars(CliGroupDone)

\* A call parseUrls(rawText) on any text
InitParse ==
    /\ npc = "call" /\ rawText \in Texts /\ parsed = <<>>
    /\ pending = <<>> /\ echoed = <<>> /\ handled = 0
    /\ IdleClassify
    /\ IdleBatch

NextParse == ParseUrls

SpecParse == InitParse /\ [][NextParse]_vars

\* handleCheck on any pasted text
InitPending ==
    /\ npc = "call" /\ rawText \in Pasted /\ parsed = <<>>
    /\ pending = <<>> /\ echoed = <<>> /\ handled = 0
    /\ IdleClassify
    /\ IdleBatch

NextPending == HandleCheck \/ ResultLine \/ HandleCheckDone

SpecPending == InitPending /\ [][NextPending]_vars

(***************************************************************************)
(* Properties of one classification (checked under Spec)                   *)
(***************************************************************************)
\* The Location header carries one of the three new-account patterns
LocationSignal(loc) ==
    /\ loc # <<>>
    /\ \/ Includes(loc, <<"shopify", ".com", "/authentication">>)
       \/ Includes(loc, <<"/auth", "/login">>)
       \/ Includes(loc, <<"accounts.", "shopify", ".com">>)

Has(r, f) == f \in DOMAIN r

\* C1: checkStore always completes by returning a CheckResult whose type is
\* one of the six account types; no exception leaves it, whatever fetch,
\* response.text() and new URL do. Until it has returned it can always take
\* its next step, and nothing is returned before that.
C1_AlwaysReturnsResult ==
    /\ pc \in {"start", "fetch", "text", "done"}
    /\ pc = "done" => /\ Has(result, "type") /\ result.type \in AccountType
                      /\ Has(result, "url") /\ result.url = storeUrl
    /\ pc # "done" => result = NoResult /\ ENABLED Next

\* A body read that fails after a 200 was received ends in an error result
C1_Witness ==
    /\ pc = "done" /\ thrown = BodyFailed /\ bodyReads = 1
    /\ result.type = "error"

\* C2: a response whose Location carries a new-account pattern ends the
\* classification at once, whatever its status: the result is new, with the
\* raw Location as redirect and the response's status, no body is read and
\* no further request follows.
C2_LocationSignalWins ==
    (response # NoResponse /\ LocationSignal(response.location)) =>
        /\ pc = "done"
        /\ result = [url |-> storeUrl, type |-> "new", status |-> response.status,
                     redirect |-> response.location]
        /\ bodyReads = 0

\* A 404 that carries a new-account Location, after one followed redirect
C2_Witness ==
    /\ pc = "done" /\ response # NoResponse /\ LocationSignal(response.location)
    /\ response.status = 404 /\ requests = 2 /\ result.type = "new"

\* The sixth response is a 3xx with a Location that carries no pattern
SixthRedirect ==
    /\ pc = "done" /\ received = 6
    /\ response.status >= 300 /\ response.status < 400
    /\ response.location # <<>> /\ ~LocationSignal(response.location)

\* C3 as stated: six consecutive 3xx responses with a Location without signal
\* give unknown, "Too many redirects" and the last status (a sixth request is
\* only issued after five followed redirects).
C3_AsStated ==
    SixthRedirect =>
        result = [url |-> storeUrl, type |-> "unknown", status |-> response.status,
                  note |-> <<"Too many redirects">>]

\* C3, amended: six consecutive 3xx responses with a Location without signal,
\* the last of which is absolute ("http...") or resolves against the current
\* URL, give unknown, "Too many redirects" and the last status; no run issues
\* more than 6 requests, and each followed redirect uses up one iteration.
C3_TooManyRedirects ==
    /\ (SixthRedirect /\ (startsWith(response.location, <<"http">>)
                            \/ Resolve(response.location, currentUrl).valid)) =>
          result = [url |-> storeUrl, type |-> "unknown", status |-> response.status,
                    note |-> <<"Too many redirects">>]
    /\ requests <= 6 /\ received <= requests
    /\ i <= requests /\ requests <= i + 1
    /\ pc = "fetch" => requests = i /\ i < 6
    /\ (pc = "done" /\ via = "tooMany") => i = 6 /\ requests = 6

C3_Witness ==
    /\ pc = "done" /\ requests = 6 /\ received = 6 /\ i = 6 /\ response.status = 302
    /\ result.type = "unknown" /\ result.note = <<"Too many redirects">>

\* C4 as stated: a 404 response gives not-shopify with a note, and the body
\* is not read.
C4_AsStated ==
    (response # NoResponse /\ response.status = 404) =>
        /\ pc = "done"
        /\ result.type = "not-shopify" /\ Has(result, "note")
        /\ bodyReads = 0

\* C4, amended: a 404 response whose Location carries no new-account pattern
\* gives not-shopify with a note and status 404, and the body is not read.
C4_NotFoundIsNotShopify ==
    (response # NoResponse /\ response.status = 404 /\ ~LocationSignal(response.location)) =>
        /\ pc = "done"
        /\ result.type = "not-shopify" /\ Has(result, "note") /\ result.status = 404
        /\ ~Has(result, "redirect") /\ ~Has(result, "error")
        /\ bodyReads = 0

\* The very first response, at the login URL, is a 404
C4_Witness ==
    /\ pc = "done" /\ requests = 1 /\ received = 1 /\ currentUrl = loginUrl
    /\ response.status = 404 /\ result.type = "not-shopify" /\ bodyReads = 0

\* The decision list of the body classifier, in its stated order
C5_Rules(b) == <<
    [when |-> hasNewSignal(b) /\ ~hasPasswordField(b), type |-> "new"],
    [when |-> hasPasswordField(b) /\ hasLegacySignal(b), type |-> "legacy"],
    [when |-> hasNewSignal(b), type |-> "new"],
    [when |-> hasPasswordField(b), type |-> "legacy"],
    [when |-> Includes(b, <<"password-page">>) \/ Includes(b, <<"storefront-password">>),
     type |-> "password-protected"],
    [when |-> ~Includes(b, <<"Shopify">>) /\ ~Includes(b, <<"shopify">>), type |-> "not-shopify"],
    [when |-> TRUE, type |-> "unknown"] >>

C5_FirstMatch(b) ==
    LET rules == C5_Rules(b)
        first == CHOOSE k \in 1..7 : rules[k].when /\ \A j \in 1..(k - 1) : ~rules[j].when
    IN rules[first].type

\* C5: whenever classifyFromBody produced the result, its type is that of the
\* first rule of the decision list that matches the body, url and status are
\* the ones passed in, and a body with a new signal, a password field and a
\* legacy signal is legacy.
C5_FirstMatchWins ==
    (pc = "done" /\ via = "body") =>
        /\ result.type = C5_FirstMatch(body)
        /\ result.url = storeUrl /\ result.status = 200
        /\ (hasNewSignal(body) /\ hasPasswordField(body) /\ hasLegacySignal(body))
              => result.type = "legacy"
        /\ ~Has(result, "redirect") /\ ~Has(result, "error")

C5_Witness ==
    /\ pc = "done" /\ via = "body"
    /\ hasNewSignal(body) /\ hasPasswordField(body) /\ hasLegacySignal(body)
    /\ result.type = "legacy"

\* C6: a returned CheckResult has an error field exactly when its type is
\* error, and an error result has neither status nor note.
C6_ErrorFieldIffError ==
    pc = "done" =>
        /\ Has(result, "error") <=> result.type = "error"
        /\ result.type = "error" => ~Has(result, "status") /\ ~Has(result, "note")

\* An exception after a response with a status had been observed
C6_Witness ==
    /\ pc = "done" /\ result.type = "error" /\ response # NoResponse
    /\ lastStatus = 302 /\ Has(result, "error") /\ ~Has(result, "status")

\* C13: a returned CheckResult carries redirect only when its type is new and
\* it came from the Location check, and then redirect is the raw Location; the
\* results of the body classifier, of the 406 rule and of every other return
\* carry none.
C13_RedirectOnlyFromLocation ==
    pc = "done" =>
        /\ Has(result, "redirect") =>
             /\ result.type = "new" /\ via = "location"
             /\ result.redirect = response.location /\ LocationSignal(response.location)
        /\ via = "location" => Has(result, "redirect")
        /\ via \in {"body", "precheck", "custom406", "404", "unexpected", "tooMany", "catch"}
             => ~Has(result, "redirect")
        /\ result.type # "new" => ~Has(result, "redirect")

\* A new result of the 406 rule
C13_Witness ==
    /\ pc = "done" /\ via = "custom406" /\ result.type = "new"
    /\ response.status = 406 /\ ~Has(result, "redirect") /\ Has(result, "note")

\* The last response was a 200 without Location signal and its body was read
C16_BodyRead ==
    /\ pc = "done" /\ thrown = NoError /\ bodyReads = 1
    /\ response.status = 200 /\ ~LocationSignal(response.location)

C16_PlainBody == ~Includes(body, <<"Shopify">>) /\ ~Includes(body, <<"my", "shopify">>)

C16_NotShopify ==
    [url |-> storeUrl, type |-> "not-shopify", status |-> 200,
     note |-> <<"Does not appear to be a Shopify store">>]

\* C16 as stated: the fingerprint is x-powered-by containing "Shopify",
\* x-shopid present, or server-timing containing "shopify" or "pageType";
\* without fingerprint and with a body holding neither "Shopify" nor
\* "myshopify" the result is not-shopify with a note, in every other case it
\* is what classifyFromBody gives for the body.
C16_AsStated ==
    C16_BodyRead =>
        LET h == response.headers
            present == \/ (h.poweredBy # Null /\ Includes(h.poweredBy, <<"Shopify">>))
                       \/ h.shopId # Null
                       \/ (h.serverTiming # Null /\ Includes(h.serverTiming, <<"shopify">>))
                       \/ (h.serverTiming # Null /\ Includes(h.serverTiming, <<"pageType">>))
        IN IF ~present /\ C16_PlainBody
           THEN result = C16_NotShopify
           ELSE result = classifyFromBody(storeUrl, body, 200)

\* C16, amended: as above, with x-shopid counting only when its value is not
\* empty.
C16_PrecheckThenBody ==
    C16_BodyRead =>
        LET h == response.headers
            present == \/ (h.poweredBy # Null /\ Includes(h.poweredBy, <<"Shopify">>))
                       \/ (h.shopId # Null /\ h.shopId # <<>>)
                       \/ (h.serverTiming # Null /\ Includes(h.serverTiming, <<"shopify">>))
                       \/ (h.serverTiming # Null /\ Includes(h.serverTiming, <<"pageType">>))
        IN IF ~present /\ C16_PlainBody
           THEN result = C16_NotShopify /\ via = "precheck"
           ELSE result = classifyFromBody(storeUrl, body, 200) /\ via = "body"

\* No fingerprint, and a body with a new-account signal but neither "Shopify"
\* nor "myshopify"
C16_Witness ==
    /\ C16_BodyRead /\ response.headers = NoHeaders /\ hasNewSignal(body) /\ C16_PlainBody
    /\ result.type = "not-shopify" /\ Has(result, "note")

\* The run ended at a 406 response without Location signal
C17_Ended406 ==
    pc = "done" /\ response # NoResponse /\ response.status = 406
    /\ ~LocationSignal(response.location)

C17_New ==
    [url |-> storeUrl, type |-> "new", status |-> 406,
     note |-> <<"Redirected to custom account domain: ", ParseUrl(currentUrl).hostname>>]

C17_Unknown ==
    [url |-> storeUrl, type |-> "unknown", status |-> 406,
     note |-> <<"Unexpected status ", 406, " at ", currentUrl>>]

\* C17 as stated: a 406 gives new, with a note naming the current host, exactly
\* when the current URL differs from the login URL and its hostname from the
\* store's (a store URL without hostname has no hostname equal to it), and
\* unknown with the unexpected-status note otherwise.
C17_AsStated ==
    C17_Ended406 =>
        LET differs == /\ currentUrl # loginUrl
                       /\ \/ ~ParseUrl(storeUrl).valid
                          \/ ParseUrl(currentUrl).hostname # ParseUrl(storeUrl).hostname
        IN IF differs THEN result = C17_New ELSE result = C17_Unknown

\* C17, amended: the same for a store URL that parses as a URL; for one that
\* does not, a 406 at a URL other than the login URL ends in an error result,
\* reading the store's hostname having thrown.
C17_CustomDomain406 ==
    C17_Ended406 =>
        IF currentUrl # loginUrl /\ ~ParseUrl(storeUrl).valid
        THEN result.type = "error" /\ via = "catch" /\ thrown = ParseFailed
        ELSE IF /\ currentUrl # loginUrl
                /\ ParseUrl(currentUrl).hostname # ParseUrl(storeUrl).hostname
        THEN result = C17_New /\ via = "custom406"
        ELSE result = C17_Unknown /\ via = "unexpected"

\* A 406 after a redirect to another path of the store's own host
C17_Witness ==
    /\ C17_Ended406 /\ requests = 2 /\ currentUrl # loginUrl
    /\ ParseUrl(storeUrl).valid
    /\ ParseUrl(currentUrl).hostname = ParseUrl(storeUrl).hostname
    /\ result = C17_Unknown

\* The last response has no Location signal and is neither a 3xx with a
\* Location, nor a 406 at another URL than the login URL on another host than
\* the store's, nor a 200, nor a 404
C18_OtherResponse ==
    /\ response # NoResponse
    /\ ~LocationSignal(response.location)
    /\ ~(response.status >= 300 /\ response.status < 400 /\ response.location # <<>>)
    /\ response.status \notin {200, 404}
    /\ ~(/\ response.status = 406 /\ currentUrl # loginUrl
         /\ \/ ~ParseUrl(storeUrl).valid
            \/ ParseUrl(currentUrl).hostname # ParseUrl(storeUrl).hostname)

\* C18: such a response ends the classification at once: the result is
\* unknown with the response's status and a note naming the status and the
\* URL asked, no body is read and no request follows, whatever is left of the
\* redirect budget.
C18_UnexpectedStatusEnds ==
    C18_OtherResponse =>
        /\ pc = "done" /\ via = "unexpected"
        /\ result = [url |-> storeUrl, type |-> "unknown", status |-> response.status,
                     note |-> <<"Unexpected status ", response.status, " at ", currentUrl>>]
        /\ requests = received /\ requests = i + 1 /\ bodyReads = 0
        /\ ~ENABLED Next

\* A 3xx without Location as the answer to the second request
C18_Witness ==
    /\ C18_OtherResponse /\ response.status = 302 /\ response.location = <<>>
    /\ requests = 2 /\ i = 1 /\ result.type = "unknown" /\ result.status = 302

\* C19: once fetch, response.text() or new URL has thrown, the classification
\* has ended with an error result whose error field is the exception's
\* message, and no request follows, whatever is left of the redirect budget;
\* an error result comes from an exception only.
C19_ExceptionEndsAsError ==
    /\ thrown # NoError =>
          /\ pc = "done" /\ via = "catch"
          /\ result = [url |-> storeUrl, type |-> "error", error |-> thrown.message]
          /\ thrown \in {FetchFailed, BodyFailed, ParseFailed}
          /\ requests <= i + 1 /\ ~ENABLED Next
    /\ (pc = "done" /\ result.type = "error") => thrown # NoError
    /\ thrown = BodyFailed => bodyReads = 1 /\ response.status = 200
    /\ (thrown = FetchFailed \/ thrown = BodyFailed) => received = requests - (IF thrown = FetchFailed THEN 1 ELSE 0)

\* The request of the third iteration fails: three requests, no fourth
C19_Witness ==
    /\ pc = "done" /\ thrown = FetchFailed /\ i = 2 /\ requests = 3 /\ received = 2
    /\ result.type = "error" /\ result.error = "fetch failed"

\* The decision list without its first rule: rules 2 to 7 in their order
C21_WithoutRuleOne(url, b, status) ==
    IF hasPasswordField(b) /\ hasLegacySignal(b)
    THEN [url |-> url, type |-> "legacy", status |-> status]
    ELSE IF hasNewSignal(b)
    THEN [url |-> url, type |-> "new", status |-> status]
    ELSE IF hasPasswordField(b)
    THEN [url |-> url, type |-> "legacy", status |-> status]
    ELSE IF Includes(b, <<"password-page">>) \/ Includes(b, <<"storefront-password">>)
    THEN [url |-> url, type |-> "password-protected", status |-> status,
          note |-> <<"Store is password-protected (not yet live)">>]
    ELSE IF ~Includes(b, <<"Shopify">>) /\ ~Includes(b, <<"shopify">>)
    THEN [url |-> url, type |-> "not-shopify", status |-> status,
          note |-> <<"Does not appear to be a Shopify store">>]
    ELSE [url |-> url, type |-> "unknown", status |-> status,
          note |-> <<"Could not determine account type from page content">>]

\* Every body that can be put together from the page fragments
C21_AllBodies == { JoinFrom(1, S) : S \in SUBSET (1..Len(BodyFragments)) }

\* The bodies for which the list with and the list without the first rule differ
C21_Differing ==
    { b \in C21_AllBodies :
        classifyFromBody(<<"u">>, b, 200) # C21_WithoutRuleOne(<<"u">>, b, 200) }

\* C21 as stated: for at least one body the decision list with its first rule
\* and the list without it give different results (a fact about the classifier
\* that any classification under way can rely on).
C21_AsStated == pc \in {"start", "fetch", "text", "done"} => C21_Differing # {}

\* C21, amended: the first rule changes no outcome: for every body the
\* decision list gives what the list without its first rule gives, and so does
\* every result classifyFromBody has returned in a run.
C21_RuleOneChangesNothing ==
    /\ C21_Differing = {}
    /\ (pc = "done" /\ via = "body") => result = C21_WithoutRuleOne(storeUrl, body, 200)

\* A result of the first rule: a new-account signal and no password field
C21_Witness ==
    /\ pc = "done" /\ via = "body" /\ hasNewSignal(body) /\ ~hasPasswordField(body)
    /\ hasLegacySignal(body) /\ result.type = "new"
    /\ result = C21_WithoutRuleOne(storeUrl, body, 200)

\* The other copy of the routine than the one running
C22_Other == IF impl = "lib" THEN "cli" ELSE "lib"

\* What the other copy returns for the same store and the same transport
\* outcomes: the two texts differ in the initial lastStatus, in isShopify and
\* in the error text of the catch clause, and nowhere else
C22_OtherResult ==
    CASE via = "catch" ->
           [url |-> storeUrl, type |-> "error", error |-> errorOf(C22_Other, thrown)]
      [] via \in {"precheck", "body"} ->
           IF /\ ~isShopifyOf(C22_Other, response.headers)
              /\ ~Includes(body, <<"Shopify">>) /\ ~Includes(body, <<"my", "shopify">>)
           THEN [url |-> storeUrl, type |-> "not-shopify", status |-> response.status,
                 note |-> <<"Does not appear to be a Shopify store">>]
           ELSE classifyFromBody(storeUrl, body, response.status)
      [] OTHER -> result

\* C22: the routine of check.js and that of lib/checker.ts return the same
\* CheckResult for the same store URL and the same transport outcomes: the
\* running copy's result is what the other copy builds, a status in a result
\* is a status received (never the initial lastStatus, which differs), and the
\* two copies agree on isShopify and on the error text wherever they are used.
C22_SameRoutine ==
    /\ pc = "done" =>
          /\ result = C22_OtherResult
          /\ Has(result, "status") =>
                /\ received >= 1 /\ result.status = response.status
                /\ result.status = lastStatus /\ result.status \notin {0, Undefined}
    /\ (pc # "start" /\ received = 0) => lastStatus = (IF impl = "lib" THEN 0 ELSE Undefined)
    /\ received >= 1 => lastStatus = response.status
    /\ (response # NoResponse /\ response.status = 200) =>
          isShopifyOf("lib", response.headers) = isShopifyOf("cli", response.headers)
    /\ thrown # NoError => errorOf("lib", thrown) = errorOf("cli", thrown)
    /\ requests <= received + 1

\* The script's copy decides on the x-shopid header alone, whose text is its
\* isShopify value
C22_Witness ==
    /\ impl = "cli" /\ pc = "done" /\ via = "body"
    /\ fingerprintCli(response.headers) = [str |-> <<"12345">>]
    /\ ~Includes(body, <<"Shopify">>) /\ ~Includes(body, <<"my", "shopify">>)
    /\ result = C22_OtherResult

(***************************************************************************)
(* Properties of a batch run (checked under SpecBatch)                     *)
(***************************************************************************)
\* The results emitted so far: the stream's chunks decoded, or the results array
EmittedResults ==
    IF caller = "endpoint" THEN [k \in 1..Len(emitted) |-> emitted[k][1]] ELSE emitted

\* The urls value of the request is an array of strings
ArrayOfStrings ==
    /\ caller = "endpoint" /\ input.json = "object" /\ input.urls.tag = "array"
    /\ \A k \in 1..Len(input.urls.items) : input.urls.items[k] # NotAString

\* The normalised URLs the input holds, before any cap
Submitted ==
    IF caller = "cli" THEN gatherUrls(input)
    ELSE IF ArrayOfStrings THEN flatMapParseUrls(input.urls.items)
    ELSE <<>>

\* Classifications started and not yet completed
InFlight ==
    Len(started) - (Len(emitted) + Cardinality({j \in 1..Len(tasks) : tasks[j].state = "settled"}))

\* The batch loop has run to its end
LoopFinished == bpc = "closed" \/ (caller = "cli" /\ bpc = "exited" /\ urls # <<>>)

\* C7: in both callers, at every moment at most 5 classifications are in
\* flight (started and not yet settled).
C7_AtMostFiveInFlight ==
    /\ InFlight >= 0 /\ InFlight <= 5
    /\ InFlight = Cardinality({j \in 1..Len(tasks) : tasks[j].state = "pending"})

\* The second group of a longer list is in flight in full
C7_Witness ==
    /\ bpc = "await" /\ Len(urls) > 10 /\ Len(started) = 10 /\ Len(emitted) = 5
    /\ InFlight = 5

\* C8: when the batch loop has finished, there is exactly one result per
\* normalised URL submitted (the first 100 of them in the endpoint), the i-th
\* result carrying the i-th URL, duplicates included; until then the results
\* emitted are those of the first URLs, in order.
C8_OneResultPerUrl ==
    LET rs == EmittedResults IN
    /\ Len(rs) <= Len(urls)
    /\ [k \in 1..Len(rs) |-> rs[k].url] = SubSeq(urls, 1, Len(rs))
    /\ LoopFinished =>
         LET all == Submitted
             expected == IF caller = "endpoint"
                         THEN SubSeq(all, 1, IF Len(all) < 100 THEN Len(all) ELSE 100)
                         ELSE all
         IN [k \in 1..Len(rs) |-> rs[k].url] = expected

\* A finished run over a list that holds the same URL again and again
C8_Witness ==
    /\ LoopFinished /\ Len(emitted) > 5
    /\ urls[1] = urls[2] /\ EmittedResults[1].url = EmittedResults[2].url

\* C9: the endpoint answers a body whose urls is absent, null, not an array or
\* an empty array with HTTP 400 and an error text, and a rejected request has
\* started no classification.
C9_RejectsMalformed ==
    /\ (caller = "endpoint" /\ bpc # "entry" /\ input.json = "object"
        /\ (input.urls.tag # "array" \/ Len(input.urls.items) = 0)) =>
          /\ bpc = "rejected" /\ httpStatus = <<400>>
          /\ errorPayload = "No URLs provided"
    /\ bpc = "rejected" =>
          /\ httpStatus = <<400>> /\ errorPayload # ""
          /\ started = <<>> /\ tasks = <<>> /\ emitted = <<>>

\* urls is a string, not an array
C9_Witness ==
    /\ caller = "endpoint" /\ bpc = "rejected" /\ input.json = "object"
    /\ input.urls.tag = "string" /\ httpStatus = <<400>>

\* C10: the endpoint starts at most 100 classifications per request, those of
\* the first normalised URLs in input order; a finished request with n valid
\* URLs has started exactly min(n, 100).
C10_CapAt100 ==
    caller = "endpoint" =>
        /\ Len(started) <= 100
        /\ started = SubSeq(urls, 1, Len(started))
        /\ bpc = "closed" =>
             LET all == Submitted IN
             /\ Len(started) = (IF Len(all) < 100 THEN Len(all) ELSE 100)
             /\ started = SubSeq(all, 1, Len(started))

\* 150 valid URLs, 100 classified
C10_Witness ==
    /\ caller = "endpoint" /\ bpc = "closed"
    /\ Len(Submitted) = 150 /\ Len(started) = 100 /\ Len(emitted) = 100

\* The script takes its help branch: --help, or neither arguments nor a file
C11_HelpBranch == input.help \/ (Len(input.positionals) = 0 /\ input.file.tag = "none")

\* The entries the command line names: the lines of the file, then the arguments
C11_Entries ==
    (IF input.file.tag = "text" THEN split(input.file.text, {"\n"}, FALSE) ELSE <<>>)
    \o input.positionals

\* No entry is left once blanks and #-comments are dropped
C11_NoValidEntry ==
    \A k \in 1..Len(C11_Entries) :
        LET t == trim(C11_Entries[k]) IN t = <<>> \/ t[1] = "#"

C11_Usage == [stream |-> "out", text |-> <<"Usage:">>]
C11_NoValidUrls == [stream |-> "err", text |-> <<"No valid URLs provided.">>]
C11_Ended == caller = "cli" /\ bpc \in {"exited", "crashed"}

\* C11 as stated: whenever no valid URL is resolved from the input the script
\* prints "No valid URLs provided." and exits 1 without starting a
\* classification; with --help or after a successful run it exits 0.
C11_AsStated ==
    /\ (C11_Ended /\ ~input.help /\ C11_NoValidEntry) =>
          /\ exitCode = <<1>> /\ printed = <<C11_NoValidUrls>>
          /\ started = <<>>
    /\ (C11_Ended /\ (input.help \/ Len(emitted) > 0)) => exitCode = <<0>>

\* C11, amended: with --help, or with neither arguments nor a file, the script
\* prints its usage and exits 0; a file that cannot be read ends it with exit
\* code 1 and without the message; otherwise, when no entry is left after
\* dropping blanks and #-comments, it prints "No valid URLs provided." and
\* exits 1; otherwise it exits 0 once every URL has its result. Only that last
\* case ever starts a classification.
C11_CliExitCodes ==
    caller = "cli" =>
        /\ bpc \in {"entry", "await", "exited", "crashed"}
        /\ (exitCode # <<>>) <=> (bpc \in {"exited", "crashed"})
        /\ bpc \in {"exited", "crashed"} =>
             IF C11_HelpBranch
             THEN bpc = "exited" /\ exitCode = <<0>> /\ printed = <<C11_Usage>> /\ started = <<>>
             ELSE IF input.file.tag = "missing"
             THEN bpc = "crashed" /\ exitCode = <<1>> /\ printed = <<>> /\ started = <<>>
             ELSE IF C11_NoValidEntry
             THEN /\ bpc = "exited" /\ exitCode = <<1>> /\ printed = <<C11_NoValidUrls>>
                  /\ started = <<>> /\ tasks = <<>> /\ emitted = <<>>
             ELSE /\ bpc = "exited" /\ exitCode = <<0>>
                  /\ Len(urls) > 0 /\ Len(emitted) = Len(urls) /\ started = urls
        /\ bpc = "await" => ~C11_HelpBranch /\ ~C11_NoValidEntry /\ input.file.tag # "missing"

\* A file of comment and blank lines only, and no arguments
C11_Witness ==
    /\ caller = "cli" /\ bpc = "exited" /\ input.file.tag = "text"
    /\ Len(input.positionals) = 0 /\ C11_NoValidEntry
    /\ exitCode = <<1>> /\ printed = <<C11_NoValidUrls>> /\ started = <<>>

\* Every classification of the group in flight has completed
C14_GroupComplete == \A j \in 1..Len(tasks) : tasks[j].state = "settled"

\* C14: in both callers a step that starts classifications is taken only when
\* every classification of the group before has completed, and a step that
\* emits results emits those of a whole group, all of them completed; so while
\* one classification of a group is pending, no result of that group or of a
\* later one is out and no later group has started.
C14_GroupBarrier ==
    /\ [](bpc = "await" =>
            /\ Len(emitted) = bi
            /\ started = SubSeq(urls, 1, bi + Len(tasks))
            /\ Len(tasks) > 0 /\ Len(tasks) <= 5)
    /\ [][ /\ started' # started => C14_GroupComplete
           /\ emitted' # emitted =>
                /\ tasks # <<>> /\ C14_GroupComplete
                /\ Len(emitted') = Len(emitted) + Len(tasks) ]_vars

\* The second group with one classification still pending: five results out
C14_Witness ==
    /\ bpc = "await" /\ bi = 5 /\ Len(tasks) = 5 /\ Len(urls) > 10
    /\ Cardinality({j \in 1..5 : tasks[j].state = "pending"}) = 1
    /\ Len(emitted) = 5 /\ Len(started) = 10

\* C15: in both callers the k-th result emitted is the result of checking the
\* k-th URL, within a group as across groups, whichever classification of a
\* group completed last.
C15_EmittedInInputOrder ==
    LET rs == EmittedResults IN
    /\ Len(rs) <= Len(urls)
    /\ \A k \in 1..Len(rs) : rs[k] = settledValue(urls[k])
    /\ \A k \in 1..Len(tasks) : tasks[k].state = "settled" => tasks[k].value.url = urls[bi + k]

\* The first group is out in input order although its first URL completed
\* last; its first two URLs and their results differ
C15_Witness ==
    /\ bpc = "await" /\ bi = 5 /\ lastSettled = 1
    /\ \A j \in 1..Len(tasks) : tasks[j].state = "pending"
    /\ urls[1] # urls[2]
    /\ EmittedResults[1].url = urls[1] /\ EmittedResults[2].url = urls[2]
    /\ EmittedResults[1].type # EmittedResults[2].type

\* C20 (under SpecBatchFair): a stream the endpoint has started is eventually
\* closed; controller.close() is called at most once, only when the results
\* of all groups have been enqueued, and nothing is enqueued after it.
C20_StreamEventuallyClosed ==
    /\ (caller = "endpoint" /\ bpc = "await") ~> (bpc = "closed")
    /\ [](caller = "endpoint" =>
            /\ closes <= 1 /\ (closes = 1 <=> bpc = "closed")
            /\ closes = 1 => /\ Len(emitted) = Len(urls) /\ tasks = <<>>
                             /\ started = urls)
    /\ [][closes = 1 => (emitted' = emitted /\ closes' = closes)]_vars

\* A stream of more than one group, closed
C20_Witness ==
    /\ caller = "endpoint" /\ bpc = "closed" /\ closes = 1
    /\ Len(urls) = 6 /\ Len(emitted) = 6 /\ bi = 10

(***************************************************************************)
(* Properties of parseUrls (checked under SpecParse)                       *)
(***************************************************************************)
\* The entries of the text are its maximal runs free of newlines and commas,
\* named by the position they start at
C12_RunStarts ==
    {a \in 1..Len(rawText) :
        rawText[a] \notin {"\n", ","} /\ (a = 1 \/ rawText[a - 1] \in {"\n", ","})}

C12_Run(a) ==
    LET b == CHOOSE e \in a..Len(rawText) :
                 /\ \A j \in a..e : rawText[j] \notin {"\n", ","}
                 /\ (e = Len(rawText) \/ rawText[e + 1] \in {"\n", ","})
    IN SubSeq(rawText, a, b)

\* The entries that are neither blank nor a #-comment
C12_Kept == {a \in C12_RunStarts : LET t == trim(C12_Run(a)) IN t # <<>> /\ t[1] # "#"}

C12_Rank(a) == Cardinality({b \in C12_Kept : b <= a})

\* C12: the array parseUrls returns holds no empty string, every element
\* starts with "http", and it has exactly one element per entry that is neither
\* blank nor a #-comment, in the order of the entries, equal entries included.
C12_ParseUrlsOutput ==
    npc = "returned" =>
        /\ \A k \in 1..Len(parsed) : parsed[k] # <<>> /\ startsWith(parsed[k], <<"http">>)
        /\ Len(parsed) = Cardinality(C12_Kept)
        /\ \A a \in C12_Kept : parsed[C12_Rank(a)] = normalizeUrl(C12_Run(a))

\* The same store twice and a comment line between them
C12_Witness ==
    /\ npc = "returned" /\ rawText = <<"a.com", "\n", "#", "\n">> \o <<"a.com">>
    /\ parsed = << <<"http", "s://", "a.com">>, <<"http", "s://", "a.com">> >>

(***************************************************************************)
(* Properties of the page's pending list (checked under SpecPending)       *)
(***************************************************************************)
C23_Slashes == {"/", "s://", "://"}

\* The urls of the result lines processed so far
C23_Shown == {echoed[k] : k \in 1..handled}

\* The entries handleCheck posted
C23_Entries == handleCheckUrls(rawText)

C23_IsPending(u) == \E m \in 1..Len(pending) : pending[m] = u

\* C23 as stated: normalizeUrl is idempotent on its outputs; every url it
\* returns has no leading or trailing whitespace and no trailing slash and is
\* returned unchanged when normalised again.
C23_AsStated ==
    npc = "posted" =>
        \A k \in 1..Len(echoed) :
            /\ normalizeUrl(echoed[k]) = echoed[k]
            /\ echoed[k][1] \notin Whitespace
            /\ echoed[k][Len(echoed[k])] \notin Whitespace
            /\ echoed[k][Len(echoed[k])] \notin C23_Slashes

\* C23: every url normalizeUrl returns starts with "http" (so has no leading
\* whitespace) and has no trailing slash, and it is a fixed point of
\* normalizeUrl exactly when it does not end in whitespace (whitespace before
\* the stripped trailing slashes is kept).  The page normalises each pending
\* entry once, as the endpoint does, so after any number of result lines an
\* entry that is not a #-comment is pending exactly when its normalizeUrl
\* value is none of the urls echoed so far.
C23_PendingMatchesEcho ==
    npc = "posted" =>
        /\ \A k \in 1..Len(echoed) :
               /\ startsWith(echoed[k], <<"http">>)
               /\ echoed[k][Len(echoed[k])] \notin C23_Slashes
               /\ (normalizeUrl(echoed[k]) = echoed[k])
                      <=> (echoed[k][Len(echoed[k])] \notin Whitespace)
        /\ \A j \in 1..Len(C23_Entries) :
               normalizeUrl(C23_Entries[j]) # Null =>
                   (C23_IsPending(C23_Entries[j])
                       <=> normalizeUrl(C23_Entries[j]) \notin C23_Shown)

\* "a.com /" is checked as "https://a.com ", which normalises further to
\* "https://a.com"; its pending entry is removed when its result line arrives,
\* while the comment entry stays
C23_Witness ==
    /\ npc = "posted" /\ handled = 1
    /\ rawText = <<"a.com", " ", "/", ",">> \o <<"#">>
    /\ echoed = << <<"http", "s://", "a.com", " ">> >>
    /\ normalizeUrl(echoed[1]) = <<"http", "s://", "a.com">>
    /\ pending = << <<"#">> >>

====
